---- MODULE Spec2Model ----
(***************************************************************************)
(* Expiry status, expiry-date calculation and the notification jobs of     *)
(* the food inventory back end (foodback), with the scheduler that runs    *)
(* them.                                                                   *)
(*                                                                         *)
(* Dates are proleptic Gregorian ordinals (datetime.date.toordinal()).     *)
(* Datetimes are hours since ordinal 0: a DATE compared with a DATETIME    *)
(* in a query is the datetime of that date's midnight.                     *)
(***************************************************************************)
EXTENDS Integers, Sequences, FiniteSets, TLC

VARIABLES
    now,         \* the UTC clock (datetime.utcnow()), in hours
    ticks,       \* hours elapsed since the process started
    users,       \* table users:       id -> [is_active]
    foods,       \* table foods:       id -> [user_id, expiry_date, quantity, is_deleted, created_at]
    tokens,      \* table push_tokens: id -> [user_id, is_active, exists, created_at, updated_at]
    scheduler,   \* the module-level scheduler of tasks/scheduler.py
    jobs,        \* its job store: job id -> [registered, next_run_time]
    runs,        \* its executor: job id -> slot -> the run of the job function
    shopping,    \* table shopping_list_items: id -> [user_id, item_name, is_checked, exists]
    args,        \* arguments of the pure function under check
    ret          \* its result

vars == <<now, ticks, users, foods, tokens, scheduler, jobs, runs, shopping, args, ret>>

-----------------------------------------------------------------------------
(* Bounds *)

MaxShelfLife == 3
MaxFoods == 2
DaySpan == 5
MaxUsers == 2
MaxTokens == 3
MaxTicks == 2
Slots == 2
MaxQuantity == 2
MaxRequests == 2
MaxItems == 2

-----------------------------------------------------------------------------
(* Optional values: None is the empty set, a value v is {v}. *)

None == {}
Some(v) == {v}
Val(o) == CHOOSE v \in o : TRUE
NoneStr == "None"
NotCalled == [kind |-> "not_called", value |-> 0]

-----------------------------------------------------------------------------
(* Calendar dates *)

HoursPerDay == 24

IsLeap(y) == (y % 4 = 0) /\ ((y % 100 # 0) \/ (y % 400 = 0))

DaysInMonth(y, m) ==
    IF m = 2 THEN (IF IsLeap(y) THEN 29 ELSE 28)
    ELSE IF m \in {4, 6, 9, 11} THEN 30 ELSE 31

RECURSIVE DaysBeforeMonth(_, _)
DaysBeforeMonth(y, m) ==
    IF m = 1 THEN 0 ELSE DaysBeforeMonth(y, m - 1) + DaysInMonth(y, m - 1)

DaysBeforeYear(y) ==
    (y - 1) * 365 + ((y - 1) \div 4) - ((y - 1) \div 100) + ((y - 1) \div 400)

\* date(y, m, d).toordinal()
Ymd2Ord(y, m, d) == DaysBeforeYear(y) + DaysBeforeMonth(y, m) + d

MinOrdinal == Ymd2Ord(1, 1, 1)
MaxOrdinal == Ymd2Ord(9999, 12, 31)

\* the date of a datetime, and the datetime of a date (midnight)
DateOf(t) == t \div HoursPerDay
Midnight(d) == d * HoursPerDay

Day0 == Ymd2Ord(2024, 1, 1)

-----------------------------------------------------------------------------
(* utils/model_utils.py: calculate_expiry_date *)

ResNone == [kind |-> "none", value |-> 0]
ResDate(d) == [kind |-> "date", value |-> d]
ResRaise == [kind |-> "raise", value |-> 0]

\* production_date + delta: date.__add__ raises OverflowError outside
\* date.min .. date.max
DateAdd(d, days) ==
    IF d + days < MinOrdinal \/ d + days > MaxOrdinal
    THEN ResRaise
    ELSE ResDate(d + days)

CalculateExpiryDateMonth31(production_date, shelf_life_value, shelf_life_unit) ==
    IF production_date = None
       \/ shelf_life_value = None \/ Val(shelf_life_value) = 0
       \/ shelf_life_unit = NoneStr \/ shelf_life_unit = ""
    THEN ResNone
    ELSE IF shelf_life_unit = "day"
         THEN DateAdd(Val(production_date), Val(shelf_life_value))
    ELSE IF shelf_life_unit = "month"
         THEN DateAdd(Val(production_date), Val(shelf_life_value) * 31)
    ELSE IF shelf_life_unit = "year"
         THEN DateAdd(Val(production_date), Val(shelf_life_value) * 365)
    ELSE ResNone

CalculateExpiryDate(production_date, shelf_life_value, shelf_life_unit) ==
    \* `not x` is true of None, of the integer 0 and of the empty string
    IF production_date = None
       \/ shelf_life_value = None \/ Val(shelf_life_value) = 0
       \/ shelf_life_unit = NoneStr \/ shelf_life_unit = ""
    THEN ResNone
    ELSE IF shelf_life_unit = "day"
         THEN DateAdd(Val(production_date), Val(shelf_life_value))
    ELSE IF shelf_life_unit = "month"
         THEN DateAdd(Val(production_date), Val(shelf_life_value) * 30)
    ELSE IF shelf_life_unit = "year"
         THEN DateAdd(Val(production_date), Val(shelf_life_value) * 365)
    ELSE ResNone

-----------------------------------------------------------------------------
(* models.py: Food.status, Food.days_until_expiry *)

DaysUntilExpiry(expiry_date, today) ==
    IF expiry_date = None THEN None ELSE Some(Val(expiry_date) - today)

StatusStrict3(expiry_date, today) ==
    IF expiry_date = None THEN "unknown"
    ELSE LET days_diff == Val(expiry_date) - today
         IN  IF days_diff < 0 THEN "expired"
             ELSE IF days_diff < 3 THEN "expiring_soon"
             ELSE "normal"

Status(expiry_date, today) ==
    IF expiry_date = None THEN "unknown"
    ELSE LET days_diff == Val(expiry_date) - today
         IN  IF days_diff < 0 THEN "expired"
             ELSE IF days_diff <= 3 THEN "expiring_soon"
             ELSE "normal"

-----------------------------------------------------------------------------
(* The status filters: utils/query_utils.py and api/foods.py *)

StatusNames == {"expired", "expiring_soon", "normal"}

\* a comparison of the column expiry_date in a query: no row with a NULL
\* expiry_date satisfies it
Lt(expiry_date, d) == expiry_date # None /\ Val(expiry_date) < d
Le(expiry_date, d) == expiry_date # None /\ Val(expiry_date) <= d
Gt(expiry_date, d) == expiry_date # None /\ Val(expiry_date) > d
Ge(expiry_date, d) == expiry_date # None /\ Val(expiry_date) >= d

\* search_foods_by_expiry_status(user_id, status, days_ahead) selects the
\* item; today is its one reading of date.today()
SearchFoodsByExpiryStatus(expiry_date, is_deleted, status, days_ahead, today) ==
    /\ is_deleted = FALSE
    /\ IF status = "expired" THEN Lt(expiry_date, today)
       ELSE IF status = "expiring_soon"
       THEN LET cutoff_date == today + days_ahead
            IN  Ge(expiry_date, today) /\ Le(expiry_date, cutoff_date)
       ELSE IF status = "normal"
       THEN LET cutoff_date == today + days_ahead
            IN  Gt(expiry_date, cutoff_date)
       ELSE TRUE

\* the status filter of GET /foods selects the item; the branch of
\* expiring_soon reads date.today() for cutoff_date (today) and again for
\* the lower bound (today2)
GetFoodsStatus(expiry_date, is_deleted, status, today, today2) ==
    /\ is_deleted = FALSE
    /\ IF status = "expired" THEN Lt(expiry_date, today)
       ELSE IF status = "expiring_soon"
       THEN LET cutoff_date == today + 3
            IN  Ge(expiry_date, today2) /\ Le(expiry_date, cutoff_date)
       ELSE IF status = "normal"
       THEN LET cutoff_date == today + 3
            IN  Gt(expiry_date, cutoff_date)
       ELSE TRUE

\* the item is in the count get_model_stats gives under the key status
GetModelStatsNormalFrom3(expiry_date, is_deleted, status, today) ==
    /\ is_deleted = FALSE
    /\ IF status = "expired" THEN Lt(expiry_date, today)
       ELSE IF status = "expiring_soon"
       THEN Ge(expiry_date, today) /\ Le(expiry_date, today + 3)
       ELSE Ge(expiry_date, today + 3)
GetModelStats(expiry_date, is_deleted, status, today) ==
    /\ is_deleted = FALSE
    /\ IF status = "expired" THEN Lt(expiry_date, today)
       ELSE IF status = "expiring_soon"
       THEN Ge(expiry_date, today) /\ Le(expiry_date, today + 3)
       ELSE Gt(expiry_date, today + 3)

-----------------------------------------------------------------------------
(* tasks/notification_tasks.py: get_user_expiring_foods *)

FoodIds == 1..MaxFoods

\* ORDER BY expiry_date ASC (rows with equal dates in id order)
RECURSIVE SortByExpiry(_)
SortByExpiry(S) ==
    IF S = {} THEN <<>>
    ELSE LET f == CHOOSE x \in S : \A y \in S :
                      \/ foods[x].expiry_date < foods[y].expiry_date
                      \/ /\ foods[x].expiry_date = foods[y].expiry_date
                         /\ x <= y
         IN  <<f>> \o SortByExpiry(S \ {f})

Range(s) == {s[i] : i \in 1..Len(s)}

\* t1 is the clock read for cutoff_date, t2 the clock read for the lower
\* bound (two calls of datetime.utcnow()).
GetUserExpiringFoods(user_id, advance_days, t1, t2) ==
    LET cutoff_date == t1 + advance_days * HoursPerDay
    IN  SortByExpiry({f \in DOMAIN foods :
            /\ foods[f].user_id = user_id
            /\ foods[f].is_deleted = FALSE
            /\ foods[f].quantity > 0
            /\ Midnight(foods[f].expiry_date) <= cutoff_date
            /\ Midnight(foods[f].expiry_date) >= t2})

-----------------------------------------------------------------------------
(* Default tables, for the specifications that do not use them *)

NoUsers == <<>>
NoFoods == <<>>
NoTokens == <<>>
NoScheduler == [created |-> FALSE, state |-> "stopped", hooks |-> 0,
                exiting |-> FALSE, joined |-> FALSE]
NoJobs == <<>>
NoRuns == <<>>
NoShopping == <<>>

-----------------------------------------------------------------------------
(* Specification of calculate_expiry_date on bounded inputs *)

ProductionDates == {None, Some(Day0), Some(Ymd2Ord(2023, 3, 1)), Some(Ymd2Ord(1, 1, 1))}
ShelfLifeValues == {None} \cup {Some(v) : v \in (-1..MaxShelfLife) \cup {12, 10000}}
ShelfLifeUnits == {NoneStr, "", "day", "month", "year", "week"}

InitExpiry ==
    /\ now = 0 /\ ticks = 0
    /\ users = NoUsers /\ foods = NoFoods /\ tokens = NoTokens
    /\ scheduler = NoScheduler /\ jobs = NoJobs /\ runs = NoRuns
    /\ shopping = NoShopping
    /\ args \in [production_date : ProductionDates,
                 shelf_life_value : ShelfLifeValues,
                 shelf_life_unit : ShelfLifeUnits]
    /\ ret = NotCalled

CallCalculateExpiryDate ==
    /\ ret = NotCalled
    /\ ret' = CalculateExpiryDate(args.production_date, args.shelf_life_value,
                                  args.shelf_life_unit)
    /\ UNCHANGED <<now, ticks, users, foods, tokens, scheduler, jobs, runs, args, shopping>>

NextExpiry == CallCalculateExpiryDate

SpecExpiry == InitExpiry /\ [][NextExpiry]_vars

-----------------------------------------------------------------------------
(* Specification of Food.status on bounded inputs *)

Days == (Day0 - DaySpan)..(Day0 + DaySpan)

InitStatus ==
    /\ now = 0 /\ ticks = 0
    /\ users = NoUsers /\ foods = NoFoods /\ tokens = NoTokens
    /\ scheduler = NoScheduler /\ jobs = NoJobs /\ runs = NoRuns
    /\ shopping = NoShopping
    /\ args \in [expiry_date : {None} \cup {Some(d) : d \in Days},
                 today : Days]
    /\ ret = NotCalled

CallStatus ==
    /\ ret = NotCalled
    /\ ret' = [kind |-> "status",
               value |-> Status(args.expiry_date, args.today)]
    /\ UNCHANGED <<now, ticks, users, foods, tokens, scheduler, jobs, runs, args, shopping>>

NextStatus == CallStatus

SpecStatus == InitStatus /\ [][NextStatus]_vars

-----------------------------------------------------------------------------
(* Specification of the status filters on bounded inputs *)

FilterNames == {"search_foods_by_expiry_status", "get_foods", "get_model_stats"}

InitFilters ==
    /\ now = 0 /\ ticks = 0
    /\ users = NoUsers /\ foods = NoFoods /\ tokens = NoTokens
    /\ scheduler = NoScheduler /\ jobs = NoJobs /\ runs = NoRuns
    /\ shopping = NoShopping
    \* late: the days between the two readings of date.today()
    /\ args \in [expiry_date : {None} \cup {Some(d) : d \in Days},
                 is_deleted : BOOLEAN,
                 today : Days,
                 late : {0, 1},
                 filter : FilterNames]
    /\ ret = NotCalled

\* the item is queried with each of the three status values; ret keeps the
\* values whose query selects it, and the status of the item on that day
CallFilter ==
    /\ ret = NotCalled
    /\ ret' = [kind |-> "filter",
               value |-> {status \in StatusNames :
                   IF args.filter = "search_foods_by_expiry_status"
                   THEN SearchFoodsByExpiryStatus(args.expiry_date, args.is_deleted,
                                                  status, 3, args.today)
                   ELSE IF args.filter = "get_foods"
                   THEN GetFoodsStatus(args.expiry_date, args.is_deleted, status,
                                       args.today, args.today + args.late)
                   ELSE GetModelStats(args.expiry_date, args.is_deleted, status,
                                      args.today)},
               status |-> Status(args.expiry_date, args.today)]
    /\ UNCHANGED <<now, ticks, users, foods, tokens, scheduler, jobs, runs, args, shopping>>

NextFilters == CallFilter

SpecFilters == InitFilters /\ [][NextFilters]_vars

-----------------------------------------------------------------------------
(* Specification of get_user_expiring_foods on bounded inputs *)

QueryDays == (Day0 - 1)..(Day0 + 2)

FoodRows == [user_id : {1, 2}, expiry_date : QueryDays, quantity : {0, 1},
             is_deleted : BOOLEAN, created_at : {Midnight(Day0 - 1)}]

QueryTimes == {Midnight(Day0), Midnight(Day0) + 1, Midnight(Day0) + 23}

InitQuery ==
    /\ now \in QueryTimes
    /\ ticks = 0
    /\ users = NoUsers /\ tokens = NoTokens
    /\ scheduler = NoScheduler /\ jobs = NoJobs /\ runs = NoRuns
    /\ shopping = NoShopping
    /\ foods \in [FoodIds -> FoodRows]
    /\ args \in [user_id : {1}, advance_days : {1, 3}, late : {0, 1}]
    /\ ret = NotCalled

\* the clock may advance between the two reads of datetime.utcnow()
CallGetUserExpiringFoods ==
    /\ ret = NotCalled
    /\ ret' = [kind |-> "foods",
               value |-> GetUserExpiringFoods(args.user_id, args.advance_days,
                                              now, now + args.late)]
    /\ now' = now + args.late
    /\ UNCHANGED <<ticks, users, foods, tokens, scheduler, jobs, runs, args, shopping>>

NextQuery == CallGetUserExpiringFoods

SpecQuery == InitQuery /\ [][NextQuery]_vars

-----------------------------------------------------------------------------
(* The tables *)

UserIds == 1..MaxUsers
TokenIds == 1..MaxTokens

\* the user a food row and a device token belong to (user_id)
FoodOwner(f) == ((f - 1) % MaxUsers) + 1
TokenOwner(t) == (((t - 1) \div 2) % MaxUsers) + 1

\* a row of push_tokens
TokenRow(t, exists, is_active, created_at, updated_at) ==
    [user_id |-> TokenOwner(t), exists |-> exists, is_active |-> is_active,
     created_at |-> created_at, updated_at |-> updated_at]

\* a device row written the day before 2024-01-01
DeviceRow(t, exists, is_active) ==
    TokenRow(t, exists, is_active, Midnight(Day0 - 1), Midnight(Day0 - 1))

RECURSIVE Ascending(_)
Ascending(S) ==
    IF S = {} THEN <<>>
    ELSE LET m == CHOOSE x \in S : \A y \in S : x <= y
         IN  <<m>> \o Ascending(S \ {m})

Take(s, n) == IF Len(s) <= n THEN s ELSE SubSeq(s, 1, n)

\* User.query.filter_by(is_active=True).all()
ActiveUsers == Ascending({u \in UserIds : users[u].is_active})

\* PushToken.query.filter_by(user_id=user.id, is_active=True).all()
ActiveTokensNotReminded(user_id) ==
    Ascending({t \in TokenIds : /\ tokens[t].exists
                                /\ tokens[t].user_id = user_id
                                /\ tokens[t].is_active
                                /\ \A j \in DOMAIN runs : \A s \in DOMAIN runs[j] :
                                       t \notin runs[j][s].ok})
ActiveTokens(user_id) ==
    Ascending({t \in TokenIds : /\ tokens[t].exists
                                /\ tokens[t].user_id = user_id
                                /\ tokens[t].is_active})

-----------------------------------------------------------------------------
(* tasks/notification_tasks.py: generate_daily_summary and the payloads *)

SummaryNone == [none |-> TRUE, total_foods |-> 0, expiring_count |-> 0,
                expired_count |-> 0, today_added |-> 0, expiring_foods |-> <<>>]

\* the rows the third query of generate_daily_summary counts
ExpiredFoods(user_id, t) ==
    {f \in FoodIds : /\ foods[f].user_id = user_id
                     /\ foods[f].is_deleted = FALSE
                     /\ foods[f].quantity > 0
                     /\ Midnight(foods[f].expiry_date) < t}

\* the four figures generate_daily_summary computes.  Every query reads
\* datetime.utcnow() for itself: t1 and t2 in get_user_expiring_foods, t3
\* for the expired rows, t4 for today_start.
SummaryFigures(user_id, t1, t2, t3, t4) ==
    LET today_start == Midnight(DateOf(t4))
    IN  [total_foods |-> Cardinality({f \in FoodIds :
                             /\ foods[f].user_id = user_id
                             /\ foods[f].is_deleted = FALSE}),
         expiring_foods |-> GetUserExpiringFoods(user_id, 3, t1, t2),
         expired_foods |-> Cardinality(ExpiredFoods(user_id, t3)),
         today_added |-> Cardinality({f \in FoodIds :
                             /\ foods[f].user_id = user_id
                             /\ foods[f].is_deleted = FALSE
                             /\ foods[f].created_at >= today_start})]

\* `if total_foods == 0 and len(expiring_foods) == 0 and ...: return None`
NothingToReport(fig) ==
    /\ fig.total_foods = 0 /\ Len(fig.expiring_foods) = 0
    /\ fig.expired_foods = 0 /\ fig.today_added = 0

GenerateDailySummary(user_id, t1, t2, t3, t4) ==
    LET fig == SummaryFigures(user_id, t1, t2, t3, t4)
    IN  IF NothingToReport(fig)
        THEN SummaryNone
        \* food.expiry_date - datetime.utcnow() is a date minus a datetime:
        \* it raises TypeError for the first listed food, and the except
        \* clause of generate_daily_summary returns None
        ELSE IF Len(fig.expiring_foods) > 0
        THEN SummaryNone
        ELSE [none |-> FALSE,
              total_foods |-> fig.total_foods,
              expiring_count |-> Len(fig.expiring_foods),
              expired_count |-> fig.expired_foods,
              today_added |-> fig.today_added,
              expiring_foods |-> <<>>]

NoPayload == [type |-> "none"]

\* expiring_foods[:5]
ListedFoods == 5

\* the message send_expiry_notification builds
ExpiryPayloadAllFoods(expiring_foods) ==
    [type |-> "expiry_reminder",
     title |-> IF Len(expiring_foods) = 1 THEN "one_food" ELSE "many_foods",
     body |-> IF Len(expiring_foods) = 1
              THEN <<"name_of", expiring_foods[1]>>
              ELSE <<"count", Len(expiring_foods)>>,
     food_count |-> Len(expiring_foods),
     foods |-> expiring_foods]
ExpiryPayload(expiring_foods) ==
    [type |-> "expiry_reminder",
     title |-> IF Len(expiring_foods) = 1 THEN "one_food" ELSE "many_foods",
     body |-> IF Len(expiring_foods) = 1
              THEN <<"name_of", expiring_foods[1]>>
              ELSE <<"count", Len(expiring_foods)>>,
     food_count |-> Len(expiring_foods),
     foods |-> Take(expiring_foods, ListedFoods)]

\* the message send_summary_notification builds
SummaryPayloadExpiredFirst(summary) ==
    LET body_parts ==
            (IF summary.expired_count > 0
             THEN << <<"expired", summary.expired_count>> >> ELSE <<>>)
            \o (IF summary.expiring_count > 0
                THEN << <<"expiring", summary.expiring_count>> >> ELSE <<>>)
            \o (IF summary.today_added > 0
                THEN << <<"today_added", summary.today_added>> >> ELSE <<>>)
    IN  [type |-> "daily_summary",
         title |-> "daily_summary",
         body |-> IF body_parts = <<>>
                  THEN << <<"total_foods", summary.total_foods>> >>
                  ELSE body_parts,
         summary |-> summary]
SummaryPayload(summary) ==
    LET body_parts ==
            (IF summary.today_added > 0
             THEN << <<"today_added", summary.today_added>> >> ELSE <<>>)
            \o (IF summary.expiring_count > 0
                THEN << <<"expiring", summary.expiring_count>> >> ELSE <<>>)
            \o (IF summary.expired_count > 0
                THEN << <<"expired", summary.expired_count>> >> ELSE <<>>)
    IN  [type |-> "daily_summary",
         title |-> "daily_summary",
         body |-> IF body_parts = <<>>
                  THEN << <<"total_foods", summary.total_foods>> >>
                  ELSE body_parts,
         summary |-> summary]

-----------------------------------------------------------------------------
(* tasks/scheduler.py *)

JobIds == {"check_expiring_foods", "send_daily_summary", "hourly_expiry_check"}

\* func= of each add_job
JobFunc(j) ==
    IF j = "send_daily_summary" THEN "send_daily_summary" ELSE "check_expiring_foods"

\* trigger= of each add_job: the hour field of the CronTrigger (minute=0),
\* None when every hour fires
JobTrigger(j) ==
    IF j = "check_expiring_foods" THEN Some(9)
    ELSE IF j = "send_daily_summary" THEN Some(20)
    ELSE None

\* timezone='Asia/Shanghai' is UTC+8
TzOffset == 8
LocalHour(t) == (t + TzOffset) % HoursPerDay

FiresAt(trigger, t) == trigger = None \/ LocalHour(t) = Val(trigger)

\* trigger.get_next_fire_time: the first fire time after t
RECURSIVE NextFireTime(_, _)
NextFireTime(trigger, t) ==
    IF FiresAt(trigger, t + 1) THEN t + 1 ELSE NextFireTime(trigger, t + 1)

\* job_defaults
MaxInstancesTwo == 1 + 1
MaxInstances == 1
Coalesce == FALSE

Unregistered == [registered |-> FALSE, next_run_time |-> 0]

IdleRun ==
    [pc |-> "idle", func |-> "none", fired |-> 0, failed |-> FALSE,
     users |-> <<>>, i |-> 0, push_tokens |-> <<>>, k |-> 0,
     payload |-> NoPayload, sent_count |-> 0,
     total_notifications |-> 0, total_users_notified |-> 0,
     total_summaries_sent |-> 0,
     \* history of the run
     raised |-> {}, notified |-> {},
     tried |-> {}, ok |-> {}, to_inactive |-> {}, fault |-> FALSE,
     dispatched |-> {}]

Running(j) == {s \in 1..Slots : runs[j][s].pc # "idle"}

\* the users whose iteration of the loop is over
Visited(r) == {r.users[n] : n \in 1..(IF r.pc = "idle" THEN 0 ELSE r.i - 1)}

\* init_scheduler()
InitSchedulerEveryCall ==
    /\ ~scheduler.exiting
    /\ scheduler' = [scheduler EXCEPT !.created = TRUE, !.hooks = @ + 1]
    /\ UNCHANGED <<now, ticks, users, foods, tokens, jobs, runs, args, ret, shopping>>
InitScheduler ==
    /\ ~scheduler.exiting
    /\ scheduler' = IF scheduler.created THEN scheduler
                    ELSE [scheduler EXCEPT !.created = TRUE, !.hooks = @ + 1]
    /\ UNCHANGED <<now, ticks, users, foods, tokens, jobs, runs, args, ret, shopping>>

\* the order of the add_job calls of add_scheduled_jobs
AddOrder == <<"check_expiring_foods", "send_daily_summary", "hourly_expiry_check">>

\* start_scheduler(), with the add_scheduled_jobs() it calls.  The first n
\* add_job calls are made: n = 3 when nothing raises, n < 3 when the import
\* of the job functions (n = 0) or the add_job call after the first n
\* raises, which the except clause of add_scheduled_jobs logs.
StartSchedulerAddingAlways(n) ==
    /\ ~scheduler.exiting
    /\ LET inited == IF scheduler.created THEN scheduler
                     ELSE [scheduler EXCEPT !.created = TRUE, !.hooks = @ + 1]
           added == {AddOrder[k] : k \in 1..n}
       IN  /\ scheduler' = [inited EXCEPT !.state = "running"]
           /\ jobs' = [j \in JobIds |->
                         IF j \in added
                         THEN [registered |-> TRUE,
                               next_run_time |-> NextFireTime(JobTrigger(j), now)]
                         ELSE jobs[j]]
    /\ UNCHANGED <<now, ticks, users, foods, tokens, runs, shopping>>
StartSchedulerAdding(n) ==
    /\ ~scheduler.exiting
    /\ LET inited == IF scheduler.created THEN scheduler
                     ELSE [scheduler EXCEPT !.created = TRUE, !.hooks = @ + 1]
           added == {AddOrder[k] : k \in 1..n}
       IN  IF inited.state # "running"
           THEN /\ scheduler' = [inited EXCEPT !.state = "running"]
                /\ jobs' = [j \in JobIds |->
                              IF j \in added
                              THEN [registered |-> TRUE,
                                    next_run_time |-> NextFireTime(JobTrigger(j), now)]
                              ELSE jobs[j]]
           ELSE /\ scheduler' = inited
                /\ jobs' = jobs
    /\ UNCHANGED <<now, ticks, users, foods, tokens, runs, shopping>>

\* start_scheduler() when add_scheduled_jobs raises nothing
StartScheduler ==
    /\ StartSchedulerAdding(Len(AddOrder))
    /\ UNCHANGED <<args, ret, shopping>>

\* start_scheduler() with whatever happens in add_scheduled_jobs; args and
\* ret keep the call and the number of add_job calls that were made
Started(n) == [kind |-> "start_scheduler", value |-> n]
StartSchedulerCall(n) ==
    /\ StartSchedulerAdding(n)
    /\ args' = [call |-> "start_scheduler", was_running |-> scheduler.state = "running"]
    /\ ret' = Started(IF scheduler.state = "running" THEN 0 ELSE n)

\* stop_scheduler() called by the application, with no run in flight:
\* scheduler.shutdown() on a running scheduler, whose memory job store
\* drops its jobs
Stopped == [kind |-> "stop_scheduler", value |-> 0]
StopSchedulerCall ==
    /\ ~scheduler.exiting
    /\ \A j \in JobIds : Running(j) = {}
    /\ IF scheduler.created /\ scheduler.state = "running"
       THEN /\ scheduler' = [scheduler EXCEPT !.state = "stopped"]
            /\ jobs' = [j \in JobIds |-> Unregistered]
       ELSE /\ scheduler' = scheduler
            /\ jobs' = jobs
    /\ args' = [call |-> "stop_scheduler", was_running |-> scheduler.state = "running"]
    /\ ret' = Stopped
    /\ UNCHANGED <<now, ticks, users, foods, tokens, runs, shopping>>

\* stop_scheduler(), the atexit hook, is called: scheduler.shutdown() sets
\* the state to stopped, so that scheduler.running is false and no job is
\* processed any more, and then waits for the executor
StopSchedulerCancelRuns ==
    /\ ~scheduler.exiting
    /\ scheduler.hooks > 0
    /\ scheduler' = [scheduler EXCEPT
                        !.exiting = TRUE,
                        !.state = "stopped",
                        !.joined = TRUE]
    /\ runs' = [j \in JobIds |-> [s \in 1..Slots |-> IdleRun]]
    /\ UNCHANGED <<now, ticks, users, foods, tokens, jobs, args, ret, shopping>>
StopScheduler ==
    /\ ~scheduler.exiting
    /\ scheduler.hooks > 0
    /\ scheduler' = [scheduler EXCEPT
                        !.exiting = TRUE,
                        !.state = "stopped"]
    /\ UNCHANGED <<now, ticks, users, foods, tokens, jobs, runs, args, ret, shopping>>

\* scheduler.shutdown(wait=True) returns, and stop_scheduler() with it, when
\* the executor has no run in flight
StopSchedulerReturn ==
    /\ scheduler.exiting
    /\ ~scheduler.joined
    /\ \A j \in JobIds : Running(j) = {}
    /\ scheduler' = [scheduler EXCEPT !.joined = TRUE]
    /\ UNCHANGED <<now, ticks, users, foods, tokens, jobs, runs, args, ret, shopping>>

\* the run times of a due job: its next_run_time and the fire times of its
\* trigger after it, up to now
RunTimes(j) ==
    {jobs[j].next_run_time} \cup
    {t \in (jobs[j].next_run_time + 1)..now : FiresAt(JobTrigger(j), t)}

\* a run time more than misfire_grace_time late is skipped; the default
\* grace time of one second is below the grain of the clock
Missed(t) == t < now

\* the scheduler thread processes a due job: the executor starts a run of
\* its function unless max_instances runs of this job id are in flight or
\* every run time is missed, and the job gets its next fire time either way
Fire(j) ==
    /\ scheduler.state = "running"
    /\ jobs[j].registered
    /\ jobs[j].next_run_time <= now
    /\ jobs' = [jobs EXCEPT ![j].next_run_time = NextFireTime(JobTrigger(j), now)]
    /\ IF \/ Cardinality(Running(j)) >= MaxInstances \/ Running(j) = 1..Slots
          \/ \A t \in RunTimes(j) : Missed(t)
       THEN runs' = runs
       ELSE LET s == CHOOSE x \in 1..Slots \ Running(j) :
                        \A y \in 1..Slots \ Running(j) : x <= y
            IN  runs' = [runs EXCEPT ![j][s] =
                            [IdleRun EXCEPT !.pc = "start",
                                            !.func = JobFunc(j),
                                            !.fired = jobs[j].next_run_time]]
    /\ UNCHANGED <<now, ticks, users, foods, tokens, scheduler, args, ret, shopping>>

\* an hour passes; the scheduler thread wakes up at every fire time, so no
\* job is left due for an hour
Tick ==
    /\ ticks < MaxTicks
    /\ scheduler.state = "running" =>
           \A j \in JobIds : jobs[j].registered => jobs[j].next_run_time > now
    /\ now' = now + 1
    /\ ticks' = ticks + 1
    /\ UNCHANGED <<users, foods, tokens, scheduler, jobs, runs, args, ret, shopping>>

\* datetime.now() is the wall clock of the host without a time zone, and
\* modify_job reads it as a time of the scheduler's zone: the offset of
\* the host's zone, UTC or Asia/Shanghai
HostOffsets == {0, TzOffset}

\* an id the job store never holds
UnknownJobId == "cleanup_expired_tokens"

RunJobNowResult(value) == [kind |-> "run_job_now", value |-> value]

\* scheduler.get_job(job_id) is not None
GetJobAnyId(job_id) == job_id \in JobIds
GetJob(job_id) == job_id \in JobIds /\ jobs[job_id].registered

\* run_job_now(job_id)
RunJobNow(job_id) ==
    /\ ~scheduler.exiting
    /\ args' = [job_id |-> job_id]
    /\ IF ~scheduler.created
       THEN /\ ret' = RunJobNowResult("not_initialized")
            /\ jobs' = jobs
       ELSE IF ~GetJob(job_id)
       THEN /\ ret' = RunJobNowResult("not_found")
            /\ jobs' = jobs
       ELSE \E host \in HostOffsets :
            /\ ret' = RunJobNowResult("rescheduled")
            /\ jobs' = [jobs EXCEPT
                           ![job_id].next_run_time = now + host - TzOffset]
    /\ UNCHANGED <<now, ticks, users, foods, tokens, scheduler, runs, shopping>>

-----------------------------------------------------------------------------
(* tasks/notification_tasks.py: check_expiring_foods and send_daily_summary *)

\* `if not expiring_foods: continue` and `if not push_tokens: continue`
SkipUserTokensOnly(found, push_tokens) == push_tokens = <<>>
SkipUser(found, push_tokens) == found = FALSE \/ push_tokens = <<>>

\* `return sent_count > 0`
SuccessAlways(sent_count) == sent_count >= 0
Success(sent_count) == sent_count > 0

\* the except clause of the loop body: log and `continue`
OnUserErrorAbort(r) ==
    [r EXCEPT !.pc = "done", !.raised = @ \cup {r.users[r.i]},
              !.fault = TRUE]
OnUserError(r) ==
    [r EXCEPT !.pc = "user", !.i = @ + 1, !.raised = @ \cup {r.users[r.i]},
              !.fault = TRUE]

\* the outer except clause of the job function: log, and return
OnJobErrorRaise(r) ==
    [r EXCEPT !.pc = "raised", !.failed = TRUE, !.fault = TRUE]
OnJobError(r) ==
    [r EXCEPT !.pc = "done", !.failed = TRUE, !.fault = TRUE]

\* the run goes on with the next user
NextUser(r) ==
    [r EXCEPT !.pc = "user", !.i = @ + 1,
              !.push_tokens = <<>>, !.k = 0, !.sent_count = 0,
              !.payload = NoPayload]

\* the lines after `success = send_..._notification(...)`
AfterSend(r, success) ==
    IF ~success THEN NextUser(r)
    ELSE IF r.func = "check_expiring_foods"
    THEN NextUser([r EXCEPT
                      !.total_notifications = @ + Len(r.push_tokens),
                      !.total_users_notified = @ + 1,
                      !.notified = @ \cup {r.users[r.i]}])
    ELSE NextUser([r EXCEPT
                      !.total_summaries_sent = @ + 1,
                      !.notified = @ \cup {r.users[r.i]}])

\* the run enters the job function: the application context and the query
\* of the active users, which raise into the outer except clause or give
\* the users to loop over
JobBegin(j, s) ==
    /\ runs[j][s].pc = "start"
    /\ \E raises \in BOOLEAN :
          runs' = [runs EXCEPT ![j][s] =
                     IF raises
                     THEN OnJobError(@)
                     ELSE [@ EXCEPT !.pc = "user", !.users = ActiveUsers, !.i = 1]]
    /\ UNCHANGED <<now, ticks, users, foods, tokens, scheduler, jobs, args, ret, shopping>>

\* one iteration of `for user in users` up to the call of
\* send_..._notification, or the end of the loop
JobUser(j, s) ==
    LET r == runs[j][s] IN
    /\ r.pc = "user"
    /\ IF r.i > Len(r.users)
       THEN runs' = [runs EXCEPT ![j][s].pc = "done"]
       ELSE \E raises \in BOOLEAN :
              LET user_id == r.users[r.i]
                  expiring_foods == GetUserExpiringFoods(user_id, 1, now, now)
                  summary == GenerateDailySummary(user_id, now, now, now, now)
                  found == IF r.func = "check_expiring_foods"
                           THEN expiring_foods # <<>>
                           ELSE ~summary.none
                  push_tokens == ActiveTokens(user_id)
              IN  runs' = [runs EXCEPT ![j][s] =
                     IF raises THEN OnUserError(r)
                     ELSE IF SkipUser(found, push_tokens) THEN NextUser(r)
                     ELSE [r EXCEPT
                             !.pc = "send",
                             !.push_tokens = push_tokens,
                             !.k = 1,
                             !.sent_count = 0,
                             !.payload = IF r.func = "check_expiring_foods"
                                         THEN ExpiryPayload(expiring_foods)
                                         ELSE SummaryPayload(summary)]]
    /\ UNCHANGED <<now, ticks, users, foods, tokens, scheduler, jobs, args, ret, shopping>>

\* one iteration of `for token in push_tokens` in send_expiry_notification
\* or send_summary_notification.  send_push_notification returns True
\* ("sent") or False ("failed").  "raised": building the message or reading
\* token.token raises into the except clause, which returns False; PushToken
\* declares device_token and no attribute token, so this is decided at the
\* first token.
JobSend(j, s) ==
    LET r == runs[j][s]
        t == r.push_tokens[r.k]
    IN
    /\ r.pc = "send"
    /\ \E outcome \in (IF r.k = 1 THEN {"sent", "failed", "raised"}
                                  ELSE {"sent", "failed"}) :
          LET called == [r EXCEPT
                  !.tried = @ \cup {t},
                  !.dispatched = @ \cup {<<t, r.payload>>},
                  !.to_inactive = IF tokens[t].exists /\ tokens[t].is_active
                                  THEN @ ELSE @ \cup {t},
                  !.sent_count = IF outcome = "sent" THEN @ + 1 ELSE @,
                  !.ok = IF outcome = "sent" THEN @ \cup {t} ELSE @,
                  !.fault = IF outcome = "sent" THEN @ ELSE TRUE]
          IN  runs' = [runs EXCEPT ![j][s] =
                 IF outcome = "raised"
                 THEN AfterSend([r EXCEPT !.fault = TRUE], FALSE)
                 ELSE IF r.k < Len(r.push_tokens)
                 THEN [called EXCEPT !.k = @ + 1]
                 ELSE AfterSend(called, Success(called.sent_count))]
    /\ UNCHANGED <<now, ticks, users, foods, tokens, scheduler, jobs, args, ret, shopping>>

\* the job function has returned: the executor releases the instance
JobRelease(j, s) ==
    /\ runs[j][s].pc = "done"
    /\ runs' = [runs EXCEPT ![j][s] = IdleRun]
    /\ UNCHANGED <<now, ticks, users, foods, tokens, scheduler, jobs, args, ret, shopping>>

-----------------------------------------------------------------------------
(* api/push.py *)

\* A device token string is identified with the row that holds it
\* (device_token is unique): string t is the string of row t.  0 is the
\* empty string and the absent token_id.
TokenStrings == 0..MaxTokens
DeviceTypes == {"", "ios"}

PushRequest(call, user_id, token, device_type, token_id) ==
    [call |-> call, user_id |-> user_id, token |-> token,
     device_type |-> device_type, token_id |-> token_id]
NoRequest == PushRequest("none", 0, 0, "", 0)

PushResponse(value) == [kind |-> "response", value |-> value]

\* POST /api/push/register-token.  PushToken declares device_token and no
\* attribute token: PushToken.query.filter_by(user_id=..., token=token)
\* raises InvalidRequestError, the except clause rolls back and answers
\* with an error, and no row is read, changed or created.
RegisterPushToken(user_id, token, device_type) ==
    /\ args' = PushRequest("register-token", user_id, token, device_type, 0)
    /\ ret' = IF token = 0 \/ device_type = ""
              THEN PushResponse("validation_error")
              ELSE PushResponse("error")
    /\ UNCHANGED <<now, ticks, users, foods, tokens, scheduler, jobs, runs, shopping>>

\* the row of unregister_push_token's query by token_id
RowById(user_id, token_id) ==
    IF tokens[token_id].exists /\ tokens[token_id].user_id = user_id
    THEN Some(token_id) ELSE None

\* `push_token.is_active = False` and `push_token.updated_at = datetime.utcnow()`
Deactivated(t) == [tokens EXCEPT ![t].is_active = FALSE, ![t].updated_at = now]

\* POST /api/push/unregister-token: with a token_id the user's row of that
\* id is marked inactive; with a token string only, filter_by(token=token)
\* raises as in register_push_token
UnregisterPushToken(user_id, token, token_id) ==
    /\ args' = PushRequest("unregister-token", user_id, token, "", token_id)
    /\ IF token = 0 /\ token_id = 0
       THEN /\ ret' = PushResponse("validation_error")
            /\ tokens' = tokens
       ELSE IF token_id # 0
       THEN LET push_token == RowById(user_id, token_id)
            IN  IF push_token = None
                THEN /\ ret' = PushResponse("not_found")
                     /\ tokens' = tokens
                ELSE /\ ret' = PushResponse("ok")
                     /\ tokens' = Deactivated(Val(push_token))
       ELSE /\ ret' = PushResponse("error")
            /\ tokens' = tokens
    /\ UNCHANGED <<now, ticks, users, foods, scheduler, jobs, runs, shopping>>

\* a request of unregister-token with the id of a row of the user that
\* changes the row, while the jobs run; its response is not kept
Unregistration(t) ==
    /\ ~scheduler.exiting
    /\ RowById(TokenOwner(t), t) # None
    /\ tokens' = Deactivated(t)
    /\ tokens' # tokens
    /\ UNCHANGED <<now, ticks, users, foods, scheduler, jobs, runs, args, ret, shopping>>

-----------------------------------------------------------------------------
(* tasks/notification_tasks.py: cleanup_expired_tokens *)

\* timedelta(days=30)
RetentionDays == 30

\* the rows of the query: is_active == False and created_at < cutoff_date
ExpiredTokensAnyState ==
    LET cutoff_date == now - RetentionDays * HoursPerDay
    IN  {t \in TokenIds : /\ tokens[t].exists
                           /\ tokens[t].created_at < cutoff_date}
ExpiredTokens ==
    LET cutoff_date == now - RetentionDays * HoursPerDay
    IN  {t \in TokenIds : /\ tokens[t].exists
                           /\ tokens[t].is_active = FALSE
                           /\ tokens[t].created_at < cutoff_date}

Cleaned(S) == [kind |-> "cleanup", value |-> S]

\* cleanup_expired_tokens(): the rows of the query are deleted and the
\* deletion committed, or an exception (no application context, the query,
\* the commit) is logged and the session rolled back
CleanupExpiredTokens ==
    \E raises \in BOOLEAN :
        LET expired_tokens == IF raises THEN {} ELSE ExpiredTokens
        IN  /\ tokens' = [t \in TokenIds |->
                             IF t \in expired_tokens
                             THEN [tokens[t] EXCEPT !.exists = FALSE]
                             ELSE tokens[t]]
            /\ ret' = Cleaned(expired_tokens)
            /\ UNCHANGED <<now, ticks, users, foods, scheduler, jobs, runs, args, shopping>>

-----------------------------------------------------------------------------
(* The process: scheduler, jobs and requests *)

AllIdle == [j \in JobIds |-> [s \in 1..Slots |-> IdleRun]]

\* 08:00 and 19:00 local time of 2024-01-01
StartTimes == {Midnight(Day0), Midnight(Day0) + 11}

FoodRow(f, expiry_date, quantity, is_deleted) ==
    [user_id |-> FoodOwner(f), expiry_date |-> expiry_date,
     quantity |-> quantity, is_deleted |-> is_deleted,
     created_at |-> Midnight(Day0 - 1)]

Init ==
    /\ now \in StartTimes
    /\ ticks = 0
    /\ users = [u \in UserIds |-> [is_active |-> TRUE]]
    /\ foods = [f \in FoodIds |-> FoodRow(f, Day0 + 1, 1, FALSE)]
    \* user 1 has registered devices, the other users have none
    /\ tokens = [t \in TokenIds |->
                    DeviceRow(t, TokenOwner(t) = 1, TokenOwner(t) = 1)]
    /\ scheduler = NoScheduler
    /\ jobs = [j \in JobIds |-> Unregistered]
    /\ runs = AllIdle
    /\ shopping = NoShopping
    /\ args = <<>>
    /\ ret = NotCalled

Next ==
    \/ InitScheduler
    \/ StartScheduler
    \/ StopScheduler
    \/ StopSchedulerReturn
    \/ Tick
    \/ \E j \in JobIds : Fire(j)
    \/ \E j \in JobIds, s \in 1..Slots : JobBegin(j, s)
    \/ \E j \in JobIds, s \in 1..Slots : JobUser(j, s)
    \/ \E j \in JobIds, s \in 1..Slots : JobSend(j, s)
    \/ \E j \in JobIds, s \in 1..Slots : JobRelease(j, s)

Spec == Init /\ [][Next]_vars

-----------------------------------------------------------------------------
(* The scheduler within one hour, with the calls of run_job_now; no user is
   active *)

InitAdmin ==
    /\ now = Midnight(Day0)
    /\ ticks = 0
    /\ users = [u \in UserIds |-> [is_active |-> FALSE]]
    /\ foods = [f \in FoodIds |-> FoodRow(f, Day0 + 1, 1, FALSE)]
    /\ tokens = [t \in TokenIds |-> DeviceRow(t, FALSE, FALSE)]
    /\ scheduler = NoScheduler
    /\ jobs = [j \in JobIds |-> Unregistered]
    /\ runs = AllIdle
    /\ shopping = NoShopping
    /\ args = <<>>
    /\ ret = NotCalled

NextAdmin ==
    \/ InitScheduler
    \/ StartScheduler
    \/ StopScheduler
    \/ StopSchedulerReturn
    \/ \E job_id \in JobIds \cup {UnknownJobId} : RunJobNow(job_id)
    \/ \E j \in JobIds : Fire(j)
    \/ \E j \in JobIds, s \in 1..Slots : JobBegin(j, s)
    \/ \E j \in JobIds, s \in 1..Slots : JobUser(j, s)
    \/ \E j \in JobIds, s \in 1..Slots : JobRelease(j, s)

SpecAdmin == InitAdmin /\ [][NextAdmin]_vars

\* modify_job wakes the scheduler thread up, which processes every due job
\* while the scheduler runs, and the thread pool of the executor takes every
\* run it was given to its end
FairAdmin ==
    /\ \A j \in JobIds : WF_vars(Fire(j))
    /\ \A j \in JobIds, s \in 1..Slots :
           WF_vars(JobBegin(j, s) \/ JobUser(j, s) \/ JobRelease(j, s))

SpecAdminFair == SpecAdmin /\ FairAdmin

-----------------------------------------------------------------------------
(* The calls of init_scheduler, start_scheduler and stop_scheduler, with a
   job registration that may raise; no user is active *)

InitLifecycle ==
    /\ now \in StartTimes
    /\ ticks = 0
    /\ users = [u \in UserIds |-> [is_active |-> FALSE]]
    /\ foods = [f \in FoodIds |-> FoodRow(f, Day0 + 1, 1, FALSE)]
    /\ tokens = [t \in TokenIds |-> DeviceRow(t, FALSE, FALSE)]
    /\ scheduler = NoScheduler
    /\ jobs = [j \in JobIds |-> Unregistered]
    /\ runs = AllIdle
    /\ shopping = NoShopping
    /\ args = [call |-> "none", was_running |-> FALSE]
    /\ ret = NotCalled

NextLifecycle ==
    \/ InitScheduler
    \/ \E n \in 0..Len(AddOrder) : StartSchedulerCall(n)
    \/ StopSchedulerCall
    \/ StopScheduler
    \/ StopSchedulerReturn
    \/ Tick
    \/ \E j \in JobIds : Fire(j)
    \/ \E j \in JobIds, s \in 1..Slots : JobBegin(j, s)
    \/ \E j \in JobIds, s \in 1..Slots : JobUser(j, s)
    \/ \E j \in JobIds, s \in 1..Slots : JobRelease(j, s)

SpecLifecycle == InitLifecycle /\ [][NextLifecycle]_vars

-----------------------------------------------------------------------------
(* One firing of a job on varied tables, with the requests of the users *)

\* 20:00 local time of 2024-01-01, when the daily summary and the hourly
\* check fire
ScanTime == Midnight(Day0) + 12

\* a row in the window, the same row deleted, and an expired row
ScanRows(f) == {FoodRow(f, Day0 + 1, 1, FALSE), FoodRow(f, Day0 + 1, 1, TRUE),
                FoodRow(f, Day0 - 1, 1, FALSE)}

InitScan ==
    /\ now = ScanTime
    /\ ticks = 0
    /\ \E last \in BOOLEAN :
          users = [u \in UserIds |-> [is_active |-> (u < MaxUsers \/ last)]]
    /\ foods \in {fs \in [FoodIds -> UNION {ScanRows(f) : f \in FoodIds}] :
                     \A f \in FoodIds : fs[f] \in ScanRows(f)}
    \* every device row is active, and the last one may be missing
    /\ \E device \in BOOLEAN :
          tokens = [t \in TokenIds |->
                      DeviceRow(t, t < MaxTokens \/ device,
                                t < MaxTokens \/ device)]
    /\ scheduler = [created |-> TRUE, state |-> "running", hooks |-> 1,
                    exiting |-> FALSE, joined |-> FALSE]
    /\ \E due \in {"hourly_expiry_check", "send_daily_summary"} :
          jobs = [j \in JobIds |->
                    [registered |-> TRUE,
                     next_run_time |-> IF j = due THEN now
                                       ELSE NextFireTime(JobTrigger(j), now)]]
    /\ runs = AllIdle
    /\ shopping = NoShopping
    /\ args = <<>>
    /\ ret = NotCalled

NextScan ==
    \/ \E j \in JobIds : Fire(j)
    \/ \E j \in JobIds, s \in 1..Slots : JobBegin(j, s)
    \/ \E j \in JobIds, s \in 1..Slots : JobUser(j, s)
    \/ \E j \in JobIds, s \in 1..Slots : JobSend(j, s)
    \/ \E j \in JobIds, s \in 1..Slots : JobRelease(j, s)
    \/ \E t \in TokenIds : Unregistration(t)

SpecScan == InitScan /\ [][NextScan]_vars

-----------------------------------------------------------------------------
(* Specification of generate_daily_summary on bounded inputs *)

SummaryDays == {Day0 - 1, Day0, Day0 + 3, Day0 + 5}

SummaryRows ==
    {r \in [user_id : {1, 2}, expiry_date : SummaryDays, quantity : {0, 1},
            is_deleted : BOOLEAN,
            created_at : {Midnight(Day0 - 1), Midnight(Day0) + 1}] :
        ~(r.is_deleted /\ r.quantity = 0)}

\* 23:00 of 2023-12-31, 00:00 and 10:00 of 2024-01-01
SummaryTimes == {Midnight(Day0) - 1, Midnight(Day0), Midnight(Day0) + 10}

\* the hours that pass before the second, third and fourth read of the clock
ClockSkews == {<<0, 0, 0>>, <<1, 0, 0>>, <<0, 1, 0>>, <<0, 0, 1>>}

InitSummary ==
    /\ now \in SummaryTimes
    /\ ticks = 0
    /\ users = NoUsers /\ tokens = NoTokens
    /\ scheduler = NoScheduler /\ jobs = NoJobs /\ runs = NoRuns
    /\ shopping = NoShopping
    /\ foods \in [FoodIds -> SummaryRows]
    /\ args \in [user_id : {1}, late : ClockSkews]
    /\ ret = NotCalled

CallGenerateDailySummary ==
    LET t1 == now
        t2 == t1 + args.late[1]
        t3 == t2 + args.late[2]
        t4 == t3 + args.late[3]
    IN  /\ ret = NotCalled
        /\ ret' = [kind |-> "summary",
                   value |-> GenerateDailySummary(args.user_id, t1, t2, t3, t4),
                   figures |-> SummaryFigures(args.user_id, t1, t2, t3, t4),
                   clock |-> <<t1, t2, t3, t4>>,
                   \* the message send_daily_summary has dispatched for it
                   payload |-> IF GenerateDailySummary(args.user_id, t1, t2, t3, t4).none
                               THEN NoPayload
                               ELSE SummaryPayload(
                                      GenerateDailySummary(args.user_id, t1, t2, t3, t4))]
        /\ now' = t4
        /\ UNCHANGED <<ticks, users, foods, tokens, scheduler, jobs, runs, args, shopping>>

NextSummary == CallGenerateDailySummary

SpecSummary == InitSummary /\ [][NextSummary]_vars

-----------------------------------------------------------------------------
(* The hourly firings of check_expiring_foods after the creation of items,
   for an active user whose dispatches succeed *)

\* 05:00 of 2023-12-30, 00:00 and 10:00 of 2024-01-01
CreationTimes == {Midnight(Day0 - 2) + 5, Midnight(Day0), Midnight(Day0) + 10}

HourlyEnd == Midnight(Day0 + 3)

Reminded(S) == [kind |-> "reminded", value |-> S]

InitHourly ==
    /\ now \in CreationTimes
    /\ ticks = 0
    /\ users = [u \in UserIds |-> [is_active |-> TRUE]]
    /\ tokens = NoTokens
    /\ scheduler = NoScheduler /\ jobs = NoJobs /\ runs = NoRuns
    /\ shopping = NoShopping
    /\ foods \in [FoodIds -> [user_id : {1}, expiry_date : {Day0, Day0 + 1},
                              quantity : {1}, is_deleted : {FALSE},
                              created_at : {now}]]
    /\ args = [user_id |-> 1]
    /\ ret = Reminded({})

\* the firing of the hour: the items of the reminder the user gets, and
\* the hour that passes until the next firing
HourlyCheck ==
    /\ now < HourlyEnd
    /\ ret' = Reminded(ret.value \cup
                       Range(GetUserExpiringFoods(args.user_id, 1, now, now)))
    /\ now' = now + 1
    /\ ticks' = ticks + 1
    /\ UNCHANGED <<users, foods, tokens, scheduler, jobs, runs, args, shopping>>

NextHourly == HourlyCheck

SpecHourly == InitHourly /\ [][NextHourly]_vars

-----------------------------------------------------------------------------
(* The register-token and unregister-token requests on a table of device
   rows *)

InitPush ==
    /\ now = Midnight(Day0)
    /\ ticks = 0
    /\ users = [u \in UserIds |-> [is_active |-> TRUE]]
    /\ foods = NoFoods
    /\ \E exists, active \in SUBSET TokenIds :
          /\ active \subseteq exists
          /\ tokens = [t \in TokenIds |->
                         DeviceRow(t, t \in exists, t \in active)]
    /\ scheduler = NoScheduler /\ jobs = NoJobs /\ runs = NoRuns
    /\ shopping = NoShopping
    /\ args = NoRequest
    /\ ret = NotCalled

NextPush ==
    \/ \E u \in UserIds, token \in TokenStrings, device_type \in DeviceTypes :
          RegisterPushToken(u, token, device_type)
    \/ \E u \in UserIds, token \in TokenStrings, token_id \in TokenStrings :
          UnregisterPushToken(u, token, token_id)

SpecPush == InitPush /\ [][NextPush]_vars

-----------------------------------------------------------------------------
(* cleanup_expired_tokens on device rows of several ages, with the
   unregister-token requests and the passing of time *)

\* rows are created 40, 30 and 10 days before 2024-01-01 00:00
TokenAges == {40, 30, 10}

\* the time that passes in one step, and the end of the observation
CleanupStep == 10 * HoursPerDay
CleanupEnd == 3 * CleanupStep

InitCleanup ==
    /\ now = Midnight(Day0)
    /\ ticks = 0
    /\ users = [u \in UserIds |-> [is_active |-> TRUE]]
    /\ foods = NoFoods
    \* a row is active and unchanged since its creation, or was made
    \* inactive the day before 2024-01-01
    /\ tokens \in {tk \in [TokenIds -> UNION {
                          {TokenRow(t, TRUE, TRUE, Midnight(Day0 - a), Midnight(Day0 - a)),
                           TokenRow(t, TRUE, FALSE, Midnight(Day0 - a), Midnight(Day0 - 1))} :
                          t \in TokenIds, a \in TokenAges}] :
                     \A t \in TokenIds : tk[t].user_id = TokenOwner(t)}
    /\ scheduler = NoScheduler /\ jobs = NoJobs /\ runs = NoRuns
    /\ shopping = NoShopping
    /\ args = NoRequest
    /\ ret = NotCalled

\* ten days pass
DaysPass ==
    /\ ticks < CleanupEnd
    /\ now' = now + CleanupStep
    /\ ticks' = ticks + CleanupStep
    /\ UNCHANGED <<users, foods, tokens, scheduler, jobs, runs, args, ret, shopping>>

NextCleanup ==
    \/ CleanupExpiredTokens
    \/ DaysPass
    \/ \E t \in TokenIds : Unregistration(t)

SpecCleanup == InitCleanup /\ [][NextCleanup]_vars

-----------------------------------------------------------------------------
(* The reminder check_expiring_foods builds for a user with up to MaxListed
   items *)

MaxListed == 6

\* the items expire today, tomorrow, or the day after (outside the window
\* of one day)
ReminderDays == {Day0, Day0 + 1, Day0 + 2}

NoReminder == [kind |-> "no_reminder", value |-> NoPayload, expiring_foods |-> <<>>]

InitReminder ==
    /\ now = Midnight(Day0)
    /\ ticks = 0
    /\ users = [u \in UserIds |-> [is_active |-> TRUE]]
    /\ foods \in [1..MaxListed -> [user_id : {1}, expiry_date : ReminderDays,
                                    quantity : {1}, is_deleted : {FALSE},
                                    created_at : {Midnight(Day0 - 1)}]]
    /\ tokens = NoTokens
    /\ scheduler = NoScheduler /\ jobs = NoJobs /\ runs = NoRuns
    /\ shopping = NoShopping
    /\ args = [user_id |-> 1]
    /\ ret = NotCalled

\* the iteration of check_expiring_foods for the user, up to the message of
\* send_expiry_notification: `if not expiring_foods: continue`
BuildReminder ==
    /\ ret = NotCalled
    /\ LET expiring_foods == GetUserExpiringFoods(args.user_id, 1, now, now)
       IN  ret' = IF expiring_foods = <<>>
                  THEN NoReminder
                  ELSE [kind |-> "reminder",
                        value |-> ExpiryPayload(expiring_foods),
                        expiring_foods |-> expiring_foods]
    /\ UNCHANGED <<now, ticks, users, foods, tokens, scheduler, jobs, runs, args, shopping>>

NextReminder == BuildReminder

SpecReminder == InitReminder /\ [][NextReminder]_vars

-----------------------------------------------------------------------------
(* api/foods.py: consume_food, with requests handled concurrently *)

Requests == 1..MaxRequests

\* the value of "quantity" in the request body; 0 stands for the values
\* that are not above 0
Amounts == 0..(MaxQuantity + 1)

ConsumedFood == 1

\* an expression that raises TypeError has no value
TypeError == None

\* food.quantity - consume_quantity: the column quantity is Numeric(10, 2),
\* read as a decimal.Decimal, and consume_quantity is float(data['quantity']);
\* Decimal and float have no common subtraction, the expression raises
Subtract(quantity, consume_quantity) == TypeError

NoResponse == [kind |-> "none", remaining_quantity |-> 0, consumed_quantity |-> 0]
NotFound == [kind |-> "not_found", remaining_quantity |-> 0, consumed_quantity |-> 0]
Rejected == [kind |-> "error_400", remaining_quantity |-> 0, consumed_quantity |-> 0]
Failed == [kind |-> "error_500", remaining_quantity |-> 0, consumed_quantity |-> 0]
Consumed(new_quantity, consume_quantity) ==
    [kind |-> "ok", remaining_quantity |-> new_quantity,
     consumed_quantity |-> consume_quantity]

\* args[r]: the request r, where its handler is, and the quantity of the
\* row its session loaded; ret.value[r]: its response; ret.was: the stored
\* quantity before the first request
InitConsume ==
    /\ now = Midnight(Day0)
    /\ ticks = 0
    /\ users = [u \in UserIds |-> [is_active |-> TRUE]]
    /\ \E quantity \in 0..MaxQuantity, is_deleted \in BOOLEAN :
          /\ foods = [f \in {ConsumedFood} |->
                         FoodRow(f, Day0 + 1, quantity, is_deleted)]
          /\ ret = [kind |-> "consume", value |-> [r \in Requests |-> NoResponse],
                    was |-> quantity]
    /\ tokens = NoTokens
    /\ scheduler = NoScheduler /\ jobs = NoJobs /\ runs = NoRuns
    /\ shopping = NoShopping
    /\ args \in [Requests -> [pc : {"start"}, user_id : UserIds,
                              quantity : Amounts, food : {None}]]

Respond(r, response) ==
    /\ args' = [args EXCEPT ![r].pc = "done"]
    /\ ret' = [ret EXCEPT !.value[r] = response]

\* Food.query.filter(id, user_id, is_deleted == False).first()
ConsumeQuery(r) ==
    /\ args[r].pc = "start"
    /\ LET food == foods[ConsumedFood]
       IN  IF food.user_id # args[r].user_id \/ food.is_deleted
           THEN Respond(r, NotFound)
           ELSE /\ args' = [args EXCEPT ![r].pc = "loaded",
                                        ![r].food = Some(food.quantity)]
                /\ UNCHANGED ret
    /\ UNCHANGED <<now, ticks, users, foods, tokens, scheduler, jobs, runs, shopping>>

\* the rest of the handler: the checks of the amount against the quantity
\* the session loaded, the subtraction, food.update(quantity=new_quantity)
\* with its commit, and the response; an exception rolls back
ConsumeUpdate(r) ==
    /\ args[r].pc = "loaded"
    /\ LET consume_quantity == args[r].quantity
           quantity == Val(args[r].food)
           new_quantity == Subtract(quantity, consume_quantity)
       IN  IF consume_quantity <= 0 \/ consume_quantity > quantity
           THEN Respond(r, Rejected) /\ UNCHANGED foods
           ELSE IF new_quantity = TypeError
           THEN Respond(r, Failed) /\ UNCHANGED foods
           ELSE /\ foods' = [foods EXCEPT ![ConsumedFood].quantity = Val(new_quantity)]
                /\ Respond(r, Consumed(Val(new_quantity), consume_quantity))
    /\ UNCHANGED <<now, ticks, users, tokens, scheduler, jobs, runs, shopping>>

NextConsume == \E r \in Requests : ConsumeQuery(r) \/ ConsumeUpdate(r)

SpecConsume == InitConsume /\ [][NextConsume]_vars

-----------------------------------------------------------------------------
(* api/shopping.py: the shopping list *)

\* an item name is a sequence of characters
RawNames == {<<" ">>, <<"a">>, <<" ", "a">>, <<"b">>}

NameLimit == 50

RECURSIVE StripLeft(_)
StripLeft(s) ==
    IF s # <<>> /\ Head(s) = " " THEN StripLeft(Tail(s)) ELSE s

RECURSIVE StripRight(_)
StripRight(s) ==
    IF s # <<>> /\ s[Len(s)] = " "
    THEN StripRight(SubSeq(s, 1, Len(s) - 1))
    ELSE s

\* str.strip()
Strip(s) == StripRight(StripLeft(s))

ShoppingRequest(call, user_id) == [call |-> call, user_id |-> user_id]
ShoppingResponse(value) == [kind |-> "shopping", value |-> value]

\* the row with this id that belongs to the user, if there is one
ItemOf(table, item_id, user_id) ==
    IF /\ item_id \in DOMAIN table
       /\ table[item_id].exists
       /\ table[item_id].user_id = user_id
    THEN Some(table[item_id])
    ELSE None

\* the ids of the unchecked rows of the user with this name, other than
\* the row except_id
ExistingUnchecked(table, user_id, item_name, except_id) ==
    {i \in DOMAIN table :
        /\ table[i].exists
        /\ table[i].user_id = user_id
        /\ table[i].item_name = item_name
        /\ table[i].is_checked = FALSE
        /\ i # except_id}

InitShopping ==
    /\ now = Midnight(Day0)
    /\ ticks = 0
    /\ users = [u \in UserIds |-> [is_active |-> TRUE]]
    /\ foods = NoFoods /\ tokens = NoTokens
    /\ scheduler = NoScheduler /\ jobs = NoJobs /\ runs = NoRuns
    /\ shopping = NoShopping
    /\ args = ShoppingRequest("none", 0)
    /\ ret = NotCalled

Answer(call, user_id, value) ==
    /\ args' = ShoppingRequest(call, user_id)
    /\ ret' = ShoppingResponse(value)
    /\ UNCHANGED <<now, ticks, users, foods, tokens, scheduler, jobs, runs>>

\* POST /items; item_name is None when the body has no item_name
AddShoppingItem(user_id, raw_name) ==
    /\ Len(shopping) < MaxItems
    /\ LET item_name == Strip(Val(raw_name))
       IN  IF raw_name = None
           THEN Answer("add", user_id, "error_400") /\ UNCHANGED shopping
           ELSE IF item_name = <<>> \/ Len(item_name) > NameLimit
           THEN Answer("add", user_id, "error_400") /\ UNCHANGED shopping
           ELSE IF ExistingUnchecked(shopping, user_id, item_name, 0) # {}
           THEN Answer("add", user_id, "error_400") /\ UNCHANGED shopping
           ELSE /\ shopping' = Append(shopping,
                                      [user_id |-> user_id, item_name |-> item_name,
                                       is_checked |-> FALSE, exists |-> TRUE])
                /\ Answer("add", user_id, "created")

\* PUT /items/<item_id>; raw_name and is_checked are None when the body
\* does not have the key
UpdateShoppingItem(user_id, item_id, raw_name, is_checked) ==
    LET item == ItemOf(shopping, item_id, user_id)
        new_name == Strip(Val(raw_name))
    IN  IF item = None
        THEN Answer("update", user_id, "not_found") /\ UNCHANGED shopping
        ELSE IF raw_name = None /\ is_checked = None
        THEN Answer("update", user_id, "error_400") /\ UNCHANGED shopping
        ELSE IF raw_name # None /\ (new_name = <<>> \/ Len(new_name) > NameLimit)
        THEN Answer("update", user_id, "error_400") /\ UNCHANGED shopping
        ELSE IF /\ raw_name # None
                /\ new_name # Val(item).item_name
                /\ ExistingUnchecked(shopping, user_id, new_name, item_id) # {}
        THEN Answer("update", user_id, "error_400") /\ UNCHANGED shopping
        ELSE /\ shopping' = [shopping EXCEPT
                   ![item_id].item_name = IF raw_name # None THEN new_name ELSE @,
                   ![item_id].is_checked = IF is_checked # None THEN Val(is_checked) ELSE @]
             /\ Answer("update", user_id, "ok")

\* one element of updates: [id, is_checked, item_name], id 0 when the
\* element has no id
UpdateOne(table, user_id, update_item) ==
    LET item == ItemOf(table, update_item.id, user_id)
        new_name == Strip(Val(update_item.item_name))
    IN  IF update_item.id = 0 \/ item = None THEN table
        ELSE [table EXCEPT
                ![update_item.id].is_checked =
                    IF update_item.is_checked # None
                    THEN Val(update_item.is_checked) ELSE @,
                ![update_item.id].item_name =
                    IF /\ update_item.item_name # None
                       /\ new_name # <<>> /\ Len(new_name) <= NameLimit
                    THEN new_name ELSE @]

RECURSIVE ApplyUpdates(_, _, _)
ApplyUpdates(table, user_id, updates) ==
    IF updates = <<>> THEN table
    ELSE ApplyUpdates(UpdateOne(table, user_id, Head(updates)), user_id, Tail(updates))

\* what is left at the id of a deleted row
DeletedItem == [user_id |-> 0, item_name |-> <<>>, is_checked |-> FALSE,
                exists |-> FALSE]

ApplyDeletions(table, user_id, deletions) ==
    [i \in DOMAIN table |->
        IF i \in deletions /\ ItemOf(table, i, user_id) # None
        THEN DeletedItem
        ELSE table[i]]

\* PATCH /items/batch
BatchUpdateItems(user_id, updates, deletions) ==
    IF updates = <<>> /\ deletions = {}
    THEN Answer("batch", user_id, "error_400") /\ UNCHANGED shopping
    ELSE /\ shopping' = ApplyDeletions(ApplyUpdates(shopping, user_id, updates),
                                       user_id, deletions)
         /\ Answer("batch", user_id, "ok")

\* PATCH /toggle-all; is_checked is None when the body has no is_checked
ToggleAllItems(user_id, is_checked) ==
    IF is_checked = None
    THEN Answer("toggle_all", user_id, "error_400") /\ UNCHANGED shopping
    ELSE /\ shopping' = [i \in DOMAIN shopping |->
                            IF shopping[i].exists /\ shopping[i].user_id = user_id
                            THEN [shopping[i] EXCEPT !.is_checked = Val(is_checked)]
                            ELSE shopping[i]]
         /\ Answer("toggle_all", user_id, "ok")

Optional(S) == {None} \cup {Some(v) : v \in S}

UpdateItems == [id : 0..MaxItems, is_checked : Optional(BOOLEAN),
                item_name : Optional(RawNames)]

NextShopping ==
    \E user_id \in UserIds :
        \/ \E raw_name \in Optional(RawNames) : AddShoppingItem(user_id, raw_name)
        \/ \E item_id \in 1..MaxItems, raw_name \in Optional(RawNames),
              is_checked \in Optional(BOOLEAN) :
                UpdateShoppingItem(user_id, item_id, raw_name, is_checked)
        \/ \E updates \in {<<>>} \cup {<<u>> : u \in UpdateItems},
              deletions \in {{}} \cup {{i} : i \in 1..MaxItems} :
                BatchUpdateItems(user_id, updates, deletions)
        \/ \E is_checked \in Optional(BOOLEAN) : ToggleAllItems(user_id, is_checked)

SpecShopping == InitShopping /\ [][NextShopping]_vars

-----------------------------------------------------------------------------
(* C3 *)

\* C3 (as claimed): calculate_expiry_date adds value, value*30 or value*365
\* days (2024-01-01, 12, month gives 2024-12-27); it returns null exactly
\* when productionDate is null, shelfLifeValue is null or the unit is not
\* day|month|year, and a date for every other input.
C3_AsClaimed ==
    /\ (/\ ret # NotCalled
        /\ args.production_date = Some(Ymd2Ord(2024, 1, 1))
        /\ args.shelf_life_value = Some(12)
        /\ args.shelf_life_unit = "month") => ret = ResDate(Ymd2Ord(2024, 12, 27))
    /\ ret # NotCalled =>
         LET pd == args.production_date
             v == args.shelf_life_value
             u == args.shelf_life_unit
         IN  IF pd = None \/ v = None \/ u \notin {"day", "month", "year"}
             THEN ret = ResNone
             ELSE ret = ResDate(Val(pd) + Val(v) *
                           (IF u = "day" THEN 1 ELSE IF u = "month" THEN 30 ELSE 365))

\* C3 (amended): calculate_expiry_date adds value, value*30 or value*365
\* days (2024-01-01, 12, month gives 2024-12-26); it returns null exactly
\* when productionDate is null, shelfLifeValue is null or 0, or the unit is
\* not day|month|year; for every other input it returns that date when the
\* date lies in 0001-01-01..9999-12-31 and raises otherwise.
C3_ExpiryDate ==
    /\ (/\ ret # NotCalled
        /\ args.production_date = Some(Ymd2Ord(2024, 1, 1))
        /\ args.shelf_life_value = Some(12)
        /\ args.shelf_life_unit = "month") => ret = ResDate(Ymd2Ord(2024, 12, 26))
    /\ ret # NotCalled =>
         LET pd == args.production_date
             v == args.shelf_life_value
             u == args.shelf_life_unit
         IN  IF pd = None \/ v = None \/ u \notin {"day", "month", "year"}
             THEN ret = ResNone
             ELSE IF Val(v) = 0 THEN ret = ResNone
             ELSE LET d == Val(pd) + Val(v) *
                           (IF u = "day" THEN 1 ELSE IF u = "month" THEN 30 ELSE 365)
                  IN  IF d >= Ymd2Ord(1, 1, 1) /\ d <= Ymd2Ord(9999, 12, 31)
                      THEN ret = ResDate(d)
                      ELSE ret = ResRaise

C3_Witness ==
    /\ args.production_date = Some(Ymd2Ord(2024, 1, 1))
    /\ args.shelf_life_value = Some(12)
    /\ args.shelf_life_unit = "month"
    /\ ret = ResDate(Ymd2Ord(2024, 12, 26))

-----------------------------------------------------------------------------
(* C2 *)

\* C2: the status is expired iff daysUntilExpiry < 0, expiring_soon iff
\* 0 <= daysUntilExpiry <= 3, normal iff daysUntilExpiry > 3 and unknown iff
\* the expiry date is null; exactly one of the four applies.
C2_Status ==
    ret # NotCalled =>
        LET e == args.expiry_date
            days == DaysUntilExpiry(e, args.today)
            s == ret.value
        IN  /\ s \in {"expired", "expiring_soon", "normal", "unknown"}
            /\ (s = "unknown") <=> (e = None)
            /\ (s = "expired") <=> (e # None /\ Val(days) < 0)
            /\ (s = "expiring_soon") <=> (e # None /\ Val(days) >= 0 /\ Val(days) <= 3)
            /\ (s = "normal") <=> (e # None /\ Val(days) > 3)

C2_Witness ==
    /\ ret # NotCalled
    /\ args.expiry_date = Some(args.today + 3)
    /\ ret.value = "expiring_soon"

-----------------------------------------------------------------------------
(* C1 *)

IsLive(f) == foods[f].is_deleted = FALSE /\ foods[f].quantity > 0

\* C1 (as claimed): the expiry-scan query returns exactly the user's live
\* items whose expiry date d satisfies today <= d <= today + advanceDays in
\* calendar days, an item expiring today included.
C1_AsClaimed ==
    (ret # NotCalled /\ args.late = 0) =>
        Range(ret.value) =
            {f \in FoodIds :
                /\ foods[f].user_id = args.user_id
                /\ IsLive(f)
                /\ DateOf(now) <= foods[f].expiry_date
                /\ foods[f].expiry_date <= DateOf(now) + args.advance_days}

-----------------------------------------------------------------------------
(* C4 *)

AllRuns == JobIds \X (1..Slots)
RunOf(x) == runs[x[1]][x[2]]

\* C4 (as claimed): for each firing time of the expiry check, every token
\* the check finds active for a user with an item in the window gets the
\* reminder exactly once: when a run of check_expiring_foods has finished
\* with every dispatch successful, each token it dispatched to has received
\* one reminder from the runs fired at that time.
C4_AsClaimed ==
    \A x \in AllRuns :
        (/\ RunOf(x).func = "check_expiring_foods"
         /\ RunOf(x).pc = "done"
         /\ ~RunOf(x).fault) =>
            \A t \in RunOf(x).tried :
                Cardinality({y \in AllRuns :
                    /\ RunOf(y).func = "check_expiring_foods"
                    /\ RunOf(y).fired = RunOf(x).fired
                    /\ t \in RunOf(y).ok}) = 1

-----------------------------------------------------------------------------
(* C5 *)

\* C5: for each job id at most one run is in flight; a firing of a job
\* whose previous run is still in flight starts no run (and a run starts
\* only when a due firing of its job is processed, so the dropped firing is
\* not made up later); runs of different job ids overlap.
C5_MaxInstances ==
    /\ [](\A j \in JobIds : Cardinality(Running(j)) <= 1)
    /\ [][\A j \in JobIds :
            /\ (/\ jobs[j].registered
                /\ jobs'[j].next_run_time # jobs[j].next_run_time
                /\ Running(j) # {}) => runs' = runs
            /\ (~(Running(j)' \subseteq Running(j))) =>
                   /\ jobs[j].next_run_time <= now
                   /\ jobs'[j].next_run_time > now
                   /\ \A s \in Running(j)' \ Running(j) :
                          runs'[j][s].fired = now]_vars

C5_Witness ==
    \E j \in JobIds : \E s \in 1..Slots :
        /\ runs[j][s].pc \in {"user", "send"}
        /\ runs[j][s].fired < now
        /\ FiresAt(JobTrigger(j), now)
        /\ jobs[j].next_run_time > now
        /\ \E j2 \in JobIds \ {j} : Running(j2) # {}

-----------------------------------------------------------------------------
(* C6 *)

OkUsers(r) == {TokenOwner(t) : t \in r.ok}

\* C6: in a run of the expiry scan, a user is counted in usersNotified iff
\* at least one dispatch to one of the user's tokens returned success.
C6_NotifiedIffSuccess ==
    \A x \in AllRuns :
        RunOf(x).func = "check_expiring_foods" =>
            /\ \A u \in Visited(RunOf(x)) :
                   (u \in RunOf(x).notified) <=> (u \in OkUsers(RunOf(x)))
            /\ RunOf(x).total_users_notified = Cardinality(RunOf(x).notified)

C6_Witness ==
    \E x \in AllRuns :
        LET r == RunOf(x) IN
        /\ r.func = "check_expiring_foods"
        /\ r.pc = "done"
        /\ \E u \in r.notified :
              \E t \in r.tried \ r.ok : TokenOwner(t) = u
        /\ \E u \in Visited(r) \ r.notified :
              \E t \in r.tried : TokenOwner(t) = u

-----------------------------------------------------------------------------
(* C7 *)

\* C7 (as claimed): notificationsSent of a run of the expiry scan is the
\* number of token dispatches that succeeded in the run.
C7_AsClaimed ==
    \A x \in AllRuns :
        (RunOf(x).func = "check_expiring_foods" /\ RunOf(x).pc = "done") =>
            RunOf(x).total_notifications = Cardinality(RunOf(x).ok)

-----------------------------------------------------------------------------
(* C8 *)

\* C8: when the processing of a user raises, the user is skipped and the
\* run goes on: a run that ends has been through every user it fetched, no
\* failing user is counted, and every other user is counted iff one of its
\* dispatches succeeded.
C8_FailureIsolated ==
    \A x \in AllRuns :
        LET r == RunOf(x) IN
        (r.pc = "done" /\ ~r.failed) =>
            /\ Visited(r) = Range(r.users)
            /\ r.notified \cap r.raised = {}
            /\ \A u \in Range(r.users) \ r.raised :
                   (u \in r.notified) <=> (u \in OkUsers(r))
            /\ r.func = "check_expiring_foods" =>
                   r.total_users_notified = Cardinality(Range(r.users) \cap OkUsers(r))
            /\ r.func = "send_daily_summary" =>
                   r.total_summaries_sent = Cardinality(Range(r.users) \cap OkUsers(r))

C8_Witness ==
    \E x \in AllRuns :
        LET r == RunOf(x) IN
        /\ r.pc = "done"
        /\ \E n, m \in 1..Len(r.users) :
              /\ n < m
              /\ r.users[n] \in r.raised
              /\ r.users[m] \in r.notified

-----------------------------------------------------------------------------
(* C9 *)

\* C9 (as claimed): in every run of either job, interleaved with the
\* unregister-token requests, a notification is
\* dispatched only to a token that is active at the moment of the dispatch.
C9_AsClaimed ==
    \A x \in AllRuns : RunOf(x).to_inactive = {}

-----------------------------------------------------------------------------
(* C10 *)

NoLiveItems(u) == \A f \in FoodIds : foods[f].user_id = u => ~IsLive(f)

\* C10: in a run of the expiry scan, a user with no live item and a user
\* with expiring items and no active token get no dispatch and are not
\* counted in usersNotified; the step that skips them goes on to the next
\* user without failing the run.
C10_SkippedUsers ==
    /\ [](\A x \in AllRuns :
            RunOf(x).func = "check_expiring_foods" =>
                \A u \in Visited(RunOf(x)) :
                    NoLiveItems(u) =>
                        /\ u \notin RunOf(x).notified
                        /\ \A t \in RunOf(x).tried : TokenOwner(t) # u)
    /\ [][\A x \in AllRuns :
            LET r == RunOf(x)
                q == runs'[x[1]][x[2]]
            IN  (/\ r.func = "check_expiring_foods"
                 /\ r.pc = "user"
                 /\ r.i <= Len(r.users)
                 /\ q # r
                 /\ \/ NoLiveItems(r.users[r.i])
                    \/ ActiveTokens(r.users[r.i]) = <<>>) =>
                    /\ q.pc = "user"
                    /\ q.i = r.i + 1
                    /\ q.failed = FALSE
                    /\ q.tried = r.tried
                    /\ q.ok = r.ok
                    /\ q.notified = r.notified
                    /\ q.total_users_notified = r.total_users_notified
                    /\ q.total_notifications = r.total_notifications]_vars

C10_Witness ==
    \E x \in AllRuns :
        LET r == RunOf(x) IN
        /\ r.func = "check_expiring_foods"
        /\ r.pc = "done"
        /\ ~r.fault
        /\ Len(r.users) >= 2
        /\ NoLiveItems(r.users[1])
        /\ GetUserExpiringFoods(r.users[2], 1, now, now) # <<>>
        /\ ActiveTokens(r.users[2]) = <<>>
        /\ r.tried = {}
        /\ r.total_users_notified = 0

-----------------------------------------------------------------------------
(* C11 *)

\* C11: two runs of the expiry scan over the same users, items and tokens,
\* on the same date and with every dispatch successful, count the same
\* usersNotified and dispatch the same (token, message) pairs: a run is not
\* suppressed by another one and keeps no memory of it.
C11_SameResultTwice ==
    \A x, y \in AllRuns :
        (/\ RunOf(x).func = "check_expiring_foods"
         /\ RunOf(y).func = "check_expiring_foods"
         /\ RunOf(x).pc = "done" /\ ~RunOf(x).fault
         /\ RunOf(y).pc = "done" /\ ~RunOf(y).fault) =>
            /\ RunOf(x).total_users_notified = RunOf(y).total_users_notified
            /\ RunOf(x).dispatched = RunOf(y).dispatched
            /\ RunOf(x).notified = RunOf(y).notified

C11_Witness ==
    \E x, y \in AllRuns :
        /\ x # y
        /\ RunOf(x).func = "check_expiring_foods"
        /\ RunOf(y).func = "check_expiring_foods"
        /\ RunOf(x).pc = "done" /\ ~RunOf(x).fault
        /\ RunOf(y).pc = "done" /\ ~RunOf(y).fault
        /\ RunOf(x).total_users_notified > 0
        /\ RunOf(x).dispatched # {}

-----------------------------------------------------------------------------
(* C12 *)

\* C12 (as claimed): the step of send_daily_summary that handles a user,
\* when it does not raise, makes no dispatch and goes on to the next user
\* if the user's four figures are all zero, and starts the dispatch to the
\* user's active tokens if a figure is non-zero and the user has an active
\* token.
C12_AsClaimed ==
    [][\A x \in AllRuns :
         LET r == RunOf(x)
             q == runs'[x[1]][x[2]]
         IN  (/\ r.func = "send_daily_summary"
              /\ r.pc = "user"
              /\ r.i <= Len(r.users)
              /\ q # r
              /\ q.raised = r.raised) =>
                 LET u == r.users[r.i]
                     fig == SummaryFigures(u, now, now, now, now)
                 IN  IF NothingToReport(fig)
                     THEN /\ q.pc = "user" /\ q.i = r.i + 1
                          /\ q.tried = r.tried
                     ELSE ActiveTokens(u) # <<>> =>
                              /\ q.pc = "send"
                              /\ q.push_tokens = ActiveTokens(u)]_vars

-----------------------------------------------------------------------------
(* C18 *)

\* C18 (as claimed): in one computation of the daily summary, whatever the
\* clock does between the queries, no live item of the user is both in
\* expiring_foods and among the expired rows counted, and every live item
\* with expiry_date <= today + 3 is in exactly one of the two.
C18_AsClaimed ==
    ret.kind = "summary" =>
        LET today == DateOf(ret.clock[1])
            expiring == Range(ret.figures.expiring_foods)
            expired == ExpiredFoods(args.user_id, ret.clock[3])
        IN  /\ expiring \cap expired = {}
            /\ ret.figures.expired_foods = Cardinality(expired)
            /\ \A f \in FoodIds :
                   (/\ foods[f].user_id = args.user_id
                    /\ IsLive(f)
                    /\ foods[f].expiry_date <= today + 3) =>
                       f \in expiring \cup expired

-----------------------------------------------------------------------------
(* C19 *)

\* C19 (as claimed): total_foods of the daily summary is the number of the
\* user's live items (not deleted, quantity > 0), today_added the number
\* of the user's live items created since the start of today, and a user
\* whose items all have quantity 0 gets no summary.
C19_AsClaimed ==
    ret.kind = "summary" =>
        LET mine == {f \in FoodIds : foods[f].user_id = args.user_id}
            today_start == Midnight(DateOf(ret.clock[4]))
        IN  /\ ret.figures.total_foods =
                   Cardinality({f \in mine : IsLive(f)})
            /\ ret.figures.today_added =
                   Cardinality({f \in mine : /\ IsLive(f)
                                              /\ foods[f].created_at >= today_start})
            /\ (\A f \in mine : foods[f].quantity = 0) => ret.value.none

-----------------------------------------------------------------------------
(* C13 *)

\* a call of run_job_now whose job id is not registered
UnregisteredCall ==
    /\ <<args, ret>>' # <<args, ret>>
    /\ IF args'.job_id \in JobIds THEN ~jobs[args'.job_id].registered ELSE TRUE

\* C13 (as claimed): run_job_now with a job id that is not registered fails
\* with the not-found error and leaves the registered jobs, their next fire
\* times and the scheduler as they were.
C13_AsClaimed ==
    [][UnregisteredCall =>
          /\ ret'.value = "not_found"
          /\ UNCHANGED <<scheduler, jobs, runs, shopping>>]_vars

\* C13: run_job_now with a job id that is not registered fails, with the
\* not-found error when the scheduler has been created and with the
\* scheduler-not-initialised error when it has not, and leaves the
\* registered jobs, their next fire times and the scheduler as they were.
C13_RunJobNowUnknown ==
    [][UnregisteredCall =>
          /\ ret'.value = IF scheduler.created THEN "not_found"
                          ELSE "not_initialized"
          /\ UNCHANGED <<scheduler, jobs, runs, shopping>>]_vars

C13_Witness ==
    /\ ret = RunJobNowResult("not_found")
    /\ args.job_id = UnknownJobId
    /\ scheduler.state = "running"
    /\ \A j \in JobIds : jobs[j].registered
    /\ \E j \in JobIds : Running(j) # {}

-----------------------------------------------------------------------------
(* C14 *)

-----------------------------------------------------------------------------
(* C15 *)

\* a run leaves the executor only when its function has returned, after
\* the loop over all the users it fetched or after the failure of the
\* fetch, and no run starts once stop_scheduler has been called
RunsFinish ==
    /\ \A x \in AllRuns :
           LET r == RunOf(x)
               q == runs'[x[1]][x[2]]
           IN  /\ (r.pc # "idle" /\ q.pc = "idle") =>
                      /\ r.pc = "done"
                      /\ r.failed \/ Visited(r) = Range(r.users)
               /\ (r.pc \in {"user", "send"} /\ q # r) =>
                      /\ q.pc \in {"user", "send", "done"}
                      /\ q.users = r.users
                      /\ q.i \in {r.i, r.i + 1}
    /\ scheduler.exiting => \A j \in JobIds : Running(j)' \subseteq Running(j)

\* C15 (as claimed): the scheduler is not in the stopped state while a run
\* is in flight; a run in flight when stop_scheduler is called goes through
\* all its users, and no run starts after the call.
C15_AsClaimed ==
    /\ [](scheduler.state = "stopped" => \A j \in JobIds : Running(j) = {})
    /\ [][RunsFinish]_vars

\* C15: stop_scheduler does not return while a run is in flight (the state
\* of the scheduler is stopped from the moment of the call); a run in
\* flight when stop_scheduler is called goes through all its users, and no
\* run starts after the call.
C15_StopWaits ==
    /\ [](/\ scheduler.joined => \A j \in JobIds : Running(j) = {}
          /\ scheduler.exiting => scheduler.state = "stopped")
    /\ [][RunsFinish]_vars

C15_Witness ==
    /\ scheduler.exiting
    /\ ~scheduler.joined
    /\ \E x, y \in AllRuns :
          /\ RunOf(x).pc = "done" /\ RunOf(x).notified # {}
          /\ RunOf(y).pc = "user" /\ RunOf(y).i = MaxUsers

-----------------------------------------------------------------------------
(* C16 *)

\* C16: a failure in a run (of the fetch of the users, of the handling of
\* a user, of a dispatch) does not leave the job function as an exception:
\* the run goes on or returns.  When a run with a failure leaves the
\* executor, its job is registered with a later fire time of its trigger
\* and has no run in flight; no run starts but at a due firing of its job,
\* which moves the job's fire time past now, so a failed run is not retried
\* before the next firing.
C16_NoFailurePropagates ==
    /\ [](\A x \in AllRuns :
            /\ RunOf(x).pc \in {"idle", "start", "user", "send", "done"}
            /\ RunOf(x).failed => RunOf(x).pc = "done"
            /\ (RunOf(x).pc # "idle" /\ scheduler.state = "running") =>
                   /\ jobs[x[1]].registered
                   /\ jobs[x[1]].next_run_time > RunOf(x).fired)
    /\ [][\A x \in AllRuns :
            LET r == RunOf(x)
                q == runs'[x[1]][x[2]]
                j == x[1]
            IN  /\ (r.fault /\ q.pc = "idle") =>
                       /\ r.pc = "done"
                       /\ jobs' = jobs
                       /\ scheduler' = scheduler
                       /\ Running(j)' = {}
                       /\ FiresAt(JobTrigger(j), jobs[j].next_run_time)
                /\ (r.pc = "idle" /\ q.pc # "idle") =>
                       /\ jobs[j].next_run_time <= now
                       /\ jobs'[j].next_run_time > now
                       /\ q.pc = "start" /\ q.fired = now /\ ~q.fault]_vars

C16_Witness ==
    \E x, y \in AllRuns :
        /\ RunOf(x).pc = "done" /\ RunOf(x).failed
        /\ RunOf(y).pc = "done" /\ ~RunOf(y).failed
        /\ RunOf(y).raised # {}
        /\ RunOf(y).tried \ RunOf(y).ok # {}
        /\ scheduler.state = "running"
        /\ RunOf(x).fired < now

-----------------------------------------------------------------------------
(* C17 *)

\* C17 (as claimed): an item that stays live, of an active user whose
\* dispatches succeed, has been in the reminder of some hourly firing by
\* the end of its expiry day, an item created on its expiry day included.
C17_AsClaimed ==
    \A f \in FoodIds :
        now >= Midnight(foods[f].expiry_date + 1) => f \in ret.value

-----------------------------------------------------------------------------
(* C20 *)

\* C20 (as claimed): in the dispatch of a notification to a user's tokens,
\* whatever happens at a token that is not the last one (the send returns
\* false, or the handling of the token raises), the next step is the
\* attempt on the user's next token.
C20_AsClaimed ==
    [][\A x \in AllRuns :
         LET r == RunOf(x)
             q == runs'[x[1]][x[2]]
         IN  (r.pc = "send" /\ r.k < Len(r.push_tokens) /\ q # r) =>
                 /\ q.pc = "send"
                 /\ q.k = r.k + 1
                 /\ q.push_tokens = r.push_tokens
                 /\ q.tried = r.tried \cup {r.push_tokens[r.k]}]_vars

-----------------------------------------------------------------------------
(* C21 *)

\* run_job_now(j) has returned and the scheduler thread has not processed
\* job j yet
Rescheduled(j) ==
    /\ ret = RunJobNowResult("rescheduled")
    /\ args.job_id = j
    /\ scheduler.state = "running"
    /\ jobs[j].next_run_time <= now

\* C21 (as claimed): after run_job_now succeeds for a registered job of a
\* running scheduler, a run of the job's function eventually starts (or the
\* scheduler is stopped first), whether or not a run of the job was in
\* flight at the call.
C21_AsClaimed ==
    \A j \in JobIds :
        Rescheduled(j) ~>
            \/ scheduler.state # "running"
            \/ /\ ~Rescheduled(j)
               /\ \E s \in 1..Slots : runs[j][s].pc = "start"

-----------------------------------------------------------------------------
(* C22 *)

\* C22 (as claimed): calculate_expiry_date called with a negative
\* shelf_life_value raises; it returns no date and no null.
C22_AsClaimed ==
    (/\ ret # NotCalled
     /\ args.shelf_life_value # None
     /\ Val(args.shelf_life_value) < 0) => ret = ResRaise

-----------------------------------------------------------------------------
(* C23 *)

\* C23 (as claimed): a register-token request of a user with a token
\* string and a device type succeeds and leaves the user's row of that
\* string active, whether the row was missing, active or inactive before;
\* an unregister-token request naming the string of a row of the user
\* succeeds and leaves the row in the table, inactive.
C23_AsClaimed ==
    LET t == args.token
        mine == t # 0 /\ args.user_id = TokenOwner(t)
    IN  /\ (args.call = "register-token" /\ mine /\ args.device_type # "") =>
               /\ ret = PushResponse("ok")
               /\ tokens[t].exists /\ tokens[t].is_active
        /\ (args.call = "unregister-token" /\ mine /\ tokens[t].exists) =>
               /\ ret = PushResponse("ok")
               /\ ~tokens[t].is_active

-----------------------------------------------------------------------------
(* C24 *)

\* the rows a step deletes
Deleted == {t \in TokenIds : tokens[t].exists /\ ~tokens'[t].exists}

\* C24 (as claimed): cleanup_expired_tokens deletes only rows that are
\* inactive and were made inactive at least 30 days ago, however long ago
\* they were created.
C24_AsClaimed ==
    [][\A t \in Deleted :
          /\ ~tokens[t].is_active
          /\ tokens[t].updated_at <= now - RetentionDays * HoursPerDay]_vars

\* C24: cleanup_expired_tokens deletes only rows that are inactive and
\* were created more than 30 days ago, whenever they were made inactive;
\* it deletes no active row and no row created within the last 30 days,
\* and nothing else deletes a row.
C24_CleanupOldInactive ==
    [][\A t \in Deleted :
          /\ ~tokens[t].is_active
          /\ tokens[t].created_at < now - RetentionDays * HoursPerDay
          /\ ret' = Cleaned(Deleted)]_vars

C24_Witness ==
    /\ ret.kind = "cleanup"
    /\ \E t \in ret.value :
          /\ ~tokens[t].exists
          /\ tokens[t].updated_at > now - RetentionDays * HoursPerDay
    /\ \E t \in TokenIds \ ret.value :
          /\ tokens[t].exists /\ ~tokens[t].is_active
          /\ tokens[t].created_at = now - RetentionDays * HoursPerDay
    /\ \E t \in TokenIds \ ret.value :
          /\ tokens[t].exists /\ tokens[t].is_active
          /\ tokens[t].created_at < now - RetentionDays * HoursPerDay

-----------------------------------------------------------------------------
(* C25 *)

\* the clauses of a summary that apply, in the order today added, about to
\* expire, already expired
Clauses(summary) ==
    LET all == << <<"today_added", summary.today_added>>,
                  <<"expiring", summary.expiring_count>>,
                  <<"expired", summary.expired_count>> >>
    IN  SelectSeq(all, LAMBDA c : c[2] > 0)

\* C25 (as claimed): the message of a dispatched daily summary has at
\* least one of the three clauses and its body is the clauses that apply,
\* in the fixed order; the fallback body is not produced.
C25_AsClaimed ==
    (ret.kind = "summary" /\ ~ret.value.none) =>
        /\ Clauses(ret.value) # <<>>
        /\ ret.payload.body = Clauses(ret.value)

\* C25: the body of the message of a dispatched daily summary is the
\* clauses that apply, in the fixed order, when there is one; when there is
\* none the body is the fallback with total_foods, which is then positive
\* (the user has items, none of them added today, about to expire or
\* expired).
C25_SummaryBody ==
    (ret.kind = "summary" /\ ~ret.value.none) =>
        /\ ret.payload.type = "daily_summary"
        /\ ret.payload.summary = ret.value
        /\ Clauses(ret.value) # <<>> => ret.payload.body = Clauses(ret.value)
        /\ Clauses(ret.value) = <<>> =>
               /\ ret.payload.body = << <<"total_foods", ret.value.total_foods>> >>
               /\ ret.value.total_foods > 0

C25_Witness ==
    /\ ret.kind = "summary" /\ ~ret.value.none
    /\ ret.payload.body = << <<"total_foods", MaxFoods>> >>
    /\ \A f \in FoodIds : foods[f].quantity > 0 /\ ~foods[f].is_deleted

-----------------------------------------------------------------------------
(* C26 *)

\* the items of the user in the window of the reminder
InWindow ==
    {f \in DOMAIN foods :
        /\ foods[f].user_id = args.user_id
        /\ foods[f].expiry_date \in {DateOf(now), DateOf(now) + 1}}

\* C26: the reminder has the singular wording, which names the item, iff
\* the user has exactly one expiring item, and otherwise the plural wording
\* with the number of all the expiring items; its data has the type
\* expiry_reminder, the number of all the expiring items, and the items
\* listed are all of them when there are at most 5 and otherwise 5 of them,
\* none of which expires later than an item that is not listed.
C26_ReminderWording ==
    ret.kind = "reminder" =>
        LET p == ret.value
            n == Cardinality(InWindow)
        IN  /\ n > 0
            /\ p.type = "expiry_reminder"
            /\ p.food_count = n
            /\ (p.title = "one_food") <=> (n = 1)
            /\ n = 1 => p.body = <<"name_of", CHOOSE f \in InWindow : TRUE>>
            /\ n # 1 => p.title = "many_foods" /\ p.body = <<"count", n>>
            /\ Len(p.foods) = (IF n <= 5 THEN n ELSE 5)
            /\ Range(p.foods) \subseteq InWindow
            /\ Cardinality(Range(p.foods)) = Len(p.foods)
            /\ \A a \in Range(p.foods), b \in InWindow \ Range(p.foods) :
                   foods[a].expiry_date <= foods[b].expiry_date
            /\ \A i, j \in 1..Len(p.foods) :
                   i < j => foods[p.foods[i]].expiry_date <= foods[p.foods[j]].expiry_date

C26_Witness ==
    /\ ret.kind = "reminder"
    /\ ret.value.food_count > 5
    /\ Len(ret.value.foods) = 5
    /\ \E a \in Range(ret.value.foods), b \in InWindow \ Range(ret.value.foods) :
          foods[a].expiry_date < foods[b].expiry_date
    /\ \E f \in DOMAIN foods : f < ret.value.foods[1] /\ f \in InWindow

-----------------------------------------------------------------------------
(* C27 *)

RegisteredJobs == {j \in JobIds : jobs[j].registered}

\* the jobs of the first n add_job calls
FirstAdded(n) == {AddOrder[k] : k \in 1..n}

\* C27 (as claimed): whenever the scheduler is running, exactly the three
\* jobs are registered, whatever calls of init_scheduler, start_scheduler
\* and stop_scheduler were made and whether or not a registration raised.
C27_AsClaimed ==
    scheduler.state = "running" => RegisteredJobs = JobIds

\* C27: a call of start_scheduler on a scheduler that is not running makes
\* it run with exactly the jobs whose add_job call was made, the three jobs
\* when the registration raised nothing, also after a stop; while the
\* scheduler runs its registered jobs do not change, so that a later call
\* of start_scheduler does not add the jobs a registration that raised
\* has left out.
C27_RegisteredJobs ==
    /\ [](scheduler.state = "running" =>
             \E n \in 0..3 : RegisteredJobs = FirstAdded(n))
    /\ [][/\ \A n \in 0..3 :
               (StartSchedulerCall(n) /\ scheduler.state # "running") =>
                   /\ scheduler'.state = "running"
                   /\ RegisteredJobs' = FirstAdded(n)
                   /\ n = 3 => RegisteredJobs' = JobIds
          /\ (scheduler.state = "running" /\ scheduler'.state = "running") =>
                 RegisteredJobs' = RegisteredJobs]_vars

C27_Witness ==
    /\ scheduler.state = "running"
    /\ RegisteredJobs = {"check_expiring_foods"}
    /\ args = [call |-> "start_scheduler", was_running |-> TRUE]
    /\ ret = Started(0)
    /\ ticks > 0

-----------------------------------------------------------------------------
(* C28 *)

\* C28: for an item that is not deleted and has an expiry date, and a day
\* that every reading of date.today() gives, each of the three filters
\* (search_foods_by_expiry_status with days_ahead = 3, the status filter of
\* GET /foods, the counts of get_model_stats) selects the item under
\* exactly one of expired, expiring_soon and normal, the one that is the
\* item's Food.status on that day; a deleted item and an item without an
\* expiry date are selected under none.
C28_FiltersAgree ==
    (ret.kind = "filter" /\ args.late = 0) =>
        /\ (~args.is_deleted /\ args.expiry_date # None) =>
               /\ ret.value = {ret.status}
               /\ ret.status \in StatusNames
        /\ (args.is_deleted \/ args.expiry_date = None) => ret.value = {}

C28_Witness ==
    /\ ret.kind = "filter" /\ args.late = 0
    /\ args.filter = "get_model_stats"
    /\ ~args.is_deleted
    /\ args.expiry_date = Some(args.today + 3)
    /\ ret.value = {"expiring_soon"}

-----------------------------------------------------------------------------
(* C29 *)

RECURSIVE ReportedConsumed(_)
ReportedConsumed(S) ==
    IF S = {} THEN 0
    ELSE LET r == CHOOSE x \in S : TRUE
         IN  ret.value[r].consumed_quantity + ReportedConsumed(S \ {r})

-----------------------------------------------------------------------------
(* C30 *)

\* C30: no two unchecked items of one user have the same item_name.
C30_AsClaimed ==
    \A i, j \in DOMAIN shopping :
        (/\ i # j
         /\ shopping[i].exists /\ shopping[j].exists
         /\ shopping[i].user_id = shopping[j].user_id
         /\ ~shopping[i].is_checked /\ ~shopping[j].is_checked)
        => shopping[i].item_name # shopping[j].item_name

====
